---- MODULE Spec2Model ----
(***************************************************************************)
(* Smart Crop Yield Predictor: the trainer (train_model.py), the predictor *)
(* (smart_crop_yield_app.py) and the earlier predictor (app.py).           *)
(*                                                                         *)
(* Numbers with decimals (rainfall, temperature, fertilizer, pH, yield)    *)
(* are kept in hundredths, so that round(x, 2) is a rounding to an         *)
(* integer. A missing cell of the CSV (pandas NaN) is the value NaN.       *)
(***************************************************************************)
EXTENDS Integers, Sequences, FiniteSets, TLC

VARIABLES
    df,        \* the rows of historical_crop_yield_dataset.csv
    entry,     \* the script streamlit runs: "smart_crop_yield_app" or "app"
    files,     \* for each file the script loads: "ok", "missing" or "corrupt"
    model,     \* the fitted classifier of crop_yield_model.pkl
    sel,       \* the sidebar widgets' current values
    session,   \* st.session_state
    page,      \* what the last script run rendered
    run,       \* what the last script run did (calls made, statement that raised)
    twin,      \* the label of the previous prediction run when it had the same inputs
    started,   \* whether the script has run in this browser session
    last_button, \* the button of the last run a button started: "none" before any
    call       \* the last direct call of a helper function, with its result

vars == <<df, entry, files, model, sel, session, page, run, twin, started, last_button, call>>

-----------------------------------------------------------------------------
(* Bounds of the model *)

MaxRows == 3
MaxAvgRows == 2
MaxYieldRows == 2

-----------------------------------------------------------------------------
(* The data model: one row of the CSV *)

NaN == -1

IsNaN(x) == x = NaN

Districts == {"Ariyalur", "Erode"}
Crops == {"Rice", "Wheat"}
YieldCategories == {"Good", "Average", "Bad"}

Row(d, c, y, rain, temp, fert, ph, prev, cat) ==
    [District |-> d, Crop |-> c, Year |-> y, Rainfall |-> rain,
     Temperature |-> temp, Fertilizer |-> fert, pH |-> ph,
     PrevYield |-> prev, Category |-> cat]

\* The numeric columns; a cell of any of them may be missing.
NumericColumns == {"Rainfall", "Temperature", "Fertilizer", "pH", "PrevYield"}

SeqsUpTo(S, n) == UNION {[1..k -> S] : k \in 0..n}

\* The sequences of at most n rows of S, no row twice.
DistinctSeqsUpTo(S, n) ==
    {q \in SeqsUpTo(S, n) : \A i, j \in 1..Len(q) : q[i] = q[j] => i = j}

-----------------------------------------------------------------------------
(* pandas / numpy helpers *)

\* Integer nearest to num/den (den > 0, num >= 0), ties to the even integer:
\* numpy's round, which round(np.float64, 2) calls.
RoundHalfEven(num, den) ==
    LET q == num \div den
        r == num % den
    IN  IF 2 * r < den THEN q
        ELSE IF 2 * r > den THEN q + 1
        ELSE IF q % 2 = 0 THEN q ELSE q + 1

\* Series.sum() and Series.count(): both skip the missing cells.
RECURSIVE ColSum(_, _)
ColSum(frame, col) ==
    IF frame = <<>> THEN 0
    ELSE (IF IsNaN(Head(frame)[col]) THEN 0 ELSE Head(frame)[col])
         + ColSum(Tail(frame), col)

RECURSIVE ColCount(_, _)
ColCount(frame, col) ==
    IF frame = <<>> THEN 0
    ELSE (IF IsNaN(Head(frame)[col]) THEN 0 ELSE 1) + ColCount(Tail(frame), col)

\* round(frame[col].mean(), 2): NaN when the column holds no value.
RoundedMean(frame, col) ==
    IF ColCount(frame, col) = 0 THEN NaN
    ELSE RoundHalfEven(ColSum(frame, col), ColCount(frame, col))

\* sorted(series.unique())
Unique(frame, col) == {frame[i][col] : i \in 1..Len(frame)}

-----------------------------------------------------------------------------
(* smart_crop_yield_app.py: get_avg_values *)

FallbackFrom == 2014
FallbackTo == 2024
WindowYears == 10

\* As InWindow, with the target year inside the window.
InWindowThroughYear(r, district, year) ==
    /\ r.District = district
    /\ r.Year >= year - WindowYears
    /\ r.Year <= year

InWindow(r, district, year) ==
    /\ r.District = district
    /\ r.Year >= year - WindowYears
    /\ r.Year < year

InFallback(r) == r.Year >= FallbackFrom /\ r.Year < FallbackTo

get_avg_values(frame, district, year) ==
    LET primary == SelectSeq(frame, LAMBDA r : InWindow(r, district, year))
        past == IF primary = <<>> THEN SelectSeq(frame, InFallback) ELSE primary
    IN  [rainfall    |-> IF past # <<>> THEN RoundedMean(past, "Rainfall") ELSE 0,
         temperature |-> IF past # <<>> THEN RoundedMean(past, "Temperature") ELSE 0,
         fertilizer  |-> IF past # <<>> THEN RoundedMean(past, "Fertilizer") ELSE 0]

(* app.py: get_avg_values *)
app_get_avg_values(frame, district, year) ==
    LET past == SelectSeq(frame, LAMBDA r : InWindow(r, district, year))
    IN  [rainfall    |-> RoundedMean(past, "Rainfall"),
         temperature |-> RoundedMean(past, "Temperature"),
         fertilizer  |-> RoundedMean(past, "Fertilizer")]

PredictionYears == {2025, 2026}

-----------------------------------------------------------------------------
(* smart_crop_yield_app.py: get_predicted_yield *)

\* ton_per_ha_to_kg_per_acre = 1000 / 2.47105, as the fraction
\* KgPerTon * 100000 / AcresPerHectareE5.
KgPerTon == 1000
AcresPerHectareE5 == 247105

\* round(total / n * 1000 / 2.47105, 2) for a mean total / n given in hundredths,
\* in hundredths. The product is split so that no intermediate value needs more
\* than 31 bits.
ToKgPerAcre(total, n) ==
    LET m == KgPerTon * 100000
        q == m \div AcresPerHectareE5
        r == m % AcresPerHectareE5
        a == (total * q) \div n
        b == (total * q) % n
        num == b * AcresPerHectareE5 + total * r
        den == n * AcresPerHectareE5
        q2 == num \div den
        r2 == num % den
        whole == a + q2
    IN  IF 2 * r2 < den THEN whole
        ELSE IF 2 * r2 > den THEN whole + 1
        ELSE IF whole % 2 = 0 THEN whole ELSE whole + 1

CropAndLabel(r, crop, label) == r.Crop = crop /\ r.Category = label

get_predicted_yield(frame, prediction_label, crop) ==
    LET filtered_data == SelectSeq(frame, LAMBDA r : CropAndLabel(r, crop, prediction_label))
        of_label == SelectSeq(frame, LAMBDA r : r.Category = prediction_label)
    IN  IF filtered_data # <<>>
        THEN \* the mean of the crop's rows, NaN when none of them holds a value
             IF ColCount(filtered_data, "PrevYield") = 0 THEN NaN
             ELSE ToKgPerAcre(ColSum(filtered_data, "PrevYield"),
                              ColCount(filtered_data, "PrevYield"))
        ELSE \* global_avg_yield if not pd.isna(global_avg_yield) else 0
             IF ColCount(of_label, "PrevYield") = 0 THEN 0
             ELSE ToKgPerAcre(ColSum(of_label, "PrevYield"),
                              ColCount(of_label, "PrevYield"))

-----------------------------------------------------------------------------
(* smart_crop_yield_app.py: generate_reason *)

RainfallLow == 100000
TemperatureHigh == 3500
PhLow == 600
PhHigh == 750

GoodReason ==
    "The combination of balanced pH levels and optimal rainfall and temperature conditions is ideal for a high yield."
AverageReason ==
    "The conditions are adequate, but factors like rainfall or temperature are slightly below the ideal range, leading to an average yield."
NotIdealReason == "The conditions are not ideal for this crop."

\* sep.join(parts)
RECURSIVE Join(_, _)
Join(parts, sep) ==
    IF parts = <<>> THEN ""
    ELSE IF Len(parts) = 1 THEN parts[1]
    ELSE parts[1] \o sep \o Join(Tail(parts), sep)

\* A comparison with NaN is false.
Less(x, y) == ~IsNaN(x) /\ x < y
Greater(x, y) == ~IsNaN(x) /\ x > y

\* As PhUnbalanced, with 7.5 itself out of balance.
PhUnbalancedFrom75(ph) == Less(ph, PhLow) \/ Greater(ph, PhHigh - 1)

PhUnbalanced(ph) == Less(ph, PhLow) \/ Greater(ph, PhHigh)

generate_reason(prediction, rainfall, temperature, ph) ==
    IF prediction = "Good" THEN GoodReason
    ELSE IF prediction = "Average" THEN AverageReason
    ELSE LET reasons ==
                 (IF Less(rainfall, RainfallLow) THEN <<"low rainfall">> ELSE <<>>)
                 \o (IF Greater(temperature, TemperatureHigh)
                     THEN <<"high temperature">> ELSE <<>>)
                 \o (IF PhUnbalanced(ph) THEN <<"unbalanced pH level">> ELSE <<>>)
             reason_text == Join(reasons, " and ")
         IN  IF reason_text # ""
             THEN "The yield is low due to " \o reason_text \o "."
             ELSE NotIdealReason

-----------------------------------------------------------------------------
(* train_model.py: the encoders and the classifier *)

\* Alphabetical order of the category strings (LabelEncoder sorts its classes).
Alphabetical ==
    <<"Ariyalur", "Average", "Bad", "Coimbatore", "Erode", "Good", "Rice", "Wheat">>

Rank(name) == CHOOSE i \in 1..Len(Alphabetical) : Alphabetical[i] = name

Complete(r) == \A col \in NumericColumns : ~IsNaN(r[col])

\* df.dropna(inplace=True)
dropna(frame) == SelectSeq(frame, Complete)

\* The trainer fits on the rows left after dropna; the predictor loads the
\* CSV as it is.
TrainingFrame(frame) == dropna(frame)

\* LabelEncoder().fit(column).classes_
le_crop(frame) == Unique(TrainingFrame(frame), "Crop")
le_district(frame) == Unique(TrainingFrame(frame), "District")
le_yield_category(frame) == Unique(TrainingFrame(frame), "Category")

\* LabelEncoder.transform([value])[0]: the position of value among the sorted
\* classes; the caller checks value \in classes first (transform raises otherwise).
transform(classes, value) == Cardinality({c \in classes : Rank(c) < Rank(value)})

\* LabelEncoder.inverse_transform([code])[0]
inverse_transform(classes, code) ==
    CHOOSE c \in classes : transform(classes, c) = code

\* X = df[[...]]: the columns the classifier is fitted on, in order.
TrainerColumns ==
    <<"DistrictEncoded", "CropEncoded", "pH Level", "Year", "Rainfall (mm)",
      "Temperature (C)", "Fertilizer Used (kg/ha)">>

\* train_test_split(test_size=0.2) leaves an empty training set, and the
\* trainer writes no artifact, unless at least two rows survive dropna.
MinTrainRows == 2

TrainerSucceeds(frame) == Len(TrainingFrame(frame)) >= MinTrainRows

\* A feature vector: the column names in order, and the value of each.
Columns(input_data) == [i \in 1..Len(input_data) |-> input_data[i][1]]
Values(input_data) == [i \in 1..Len(input_data) |-> input_data[i][2]]

RECURSIVE SumSeq(_)
SumSeq(s) == IF s = <<>> THEN 0 ELSE Head(s) + SumSeq(Tail(s))

\* model.predict refuses a frame whose columns are not those it was fitted on.
ModelAccepts(input_data) == Columns(input_data) = TrainerColumns

HasNaN(input_data) == \E i \in 1..Len(input_data) : IsNaN(input_data[i][2])

\* model.predict(input_data)[0]: the fitted forest is a fixed function of the
\* feature values, one of the functions Forests names. Its classes are encoded
\* yield categories of the training rows.
Forests == {0, 1}

predict(m, frame, input_data) ==
    (m + SumSeq(Values(input_data))) % Cardinality(le_yield_category(frame))

-----------------------------------------------------------------------------
(* Loading, at the top of both scripts *)

LoadOrder ==
    <<"crop_yield_model.pkl", "le_crop.pkl", "le_district.pkl",
      "le_yield_category.pkl", "historical_crop_yield_dataset.csv">>

FileNames == {LoadOrder[i] : i \in 1..Len(LoadOrder)}

\* As LoadRaises, had the script not read the CSV in the same try block.
LoadRaisesPickles(f) ==
    LET bad == {i \in 1..(Len(LoadOrder) - 1) : f[LoadOrder[i]] # "ok"}
        first == CHOOSE i \in bad : \A j \in bad : i <= j
    IN  IF bad = {} THEN "none"
        ELSE IF f[LoadOrder[first]] = "missing" THEN "FileNotFoundError"
        ELSE "Exception"

\* As LoadRaises, had the handler been "except Exception".
LoadRaisesBroad(f) ==
    IF \A n \in FileNames : f[n] = "ok" THEN "none" ELSE "FileNotFoundError"

\* The exception the loads raise, the first in load order: "none",
\* "FileNotFoundError" (the file is missing) or "Exception" (any other error).
LoadRaises(f) ==
    LET bad == {i \in 1..Len(LoadOrder) : f[LoadOrder[i]] # "ok"}
        first == CHOOSE i \in bad : \A j \in bad : i <= j
    IN  IF bad = {} THEN "none"
        ELSE IF f[LoadOrder[first]] = "missing" THEN "FileNotFoundError"
        ELSE "Exception"

-----------------------------------------------------------------------------
(* What a script run leaves behind *)

BlankPage ==
    [error      |-> "none",   \* "st.error": the script's own message;
                              \* "uncaught": streamlit's display of an exception
                              \* that left the script
     sidebar    |-> FALSE,    \* the sidebar widgets and the two buttons
     auto       |-> <<>>,     \* the auto-filled data box
     prediction |-> <<>>,     \* the prediction line(s)
     nodata     |-> FALSE,    \* the "No data available" warning
     record     |-> <<>>,     \* the narrative of a historical record
     table      |-> <<>>,     \* app.py's st.dataframe
     link       |-> <<>>]     \* the download link, holding the report it encodes

BlankRun ==
    [failed        |-> "none",  \* the statement that raised
     input_columns |-> <<>>,    \* the columns of the frame given to model.predict
     predict_calls |-> 0,       \* the calls of model.predict
     nan_features  |-> FALSE]   \* whether a frame given to model.predict held a NaN

EmptySession ==
    [present        |-> FALSE,  \* whether the four keys are set
     report_content |-> <<>>,
     show_download  |-> FALSE,
     show_results   |-> FALSE,
     result_type    |-> "None"]

Out(sess, pg, rn, tw) == [session |-> sess, page |-> pg, run |-> rn, twin |-> tw]

Raise(sess, pg, statement, cols, calls, nans) ==
    Out(sess, [pg EXCEPT !.error = "uncaught"],
        [failed |-> statement, input_columns |-> cols, predict_calls |-> calls,
         nan_features |-> nans],
        <<>>)

-----------------------------------------------------------------------------
(* smart_crop_yield_app.py: the script *)

get_specific_year_values(frame, district, year) ==
    LET data == SelectSeq(frame, LAMBDA r : r.District = district /\ r.Year = year)
    IN  IF data = <<>>
        THEN [rainfall |-> 0, temperature |-> 0, fertilizer |-> 0]
        ELSE [rainfall    |-> RoundedMean(data, "Rainfall"),
              temperature |-> RoundedMean(data, "Temperature"),
              fertilizer  |-> RoundedMean(data, "Fertilizer")]

\* if 'key' not in st.session_state: ...
InitSession(sess) ==
    IF sess.present THEN sess
    ELSE [present |-> TRUE, report_content |-> <<>>, show_download |-> FALSE,
          show_results |-> FALSE, result_type |-> "None"]

\* if predict_btn: ... elif analyze_btn: ...
ButtonLogic(sess, btn) ==
    IF btn = "predict"
    THEN [sess EXCEPT !.show_results = TRUE, !.result_type = "prediction",
                      !.show_download = TRUE]
    ELSE IF btn = "analyze"
    THEN [sess EXCEPT !.show_results = TRUE, !.result_type = "analysis",
                      !.show_download = FALSE]
    ELSE sess

\* As InputData, with the year of the analysis selectbox.
InputDataPreviousYear(district_code, crop_code, s, auto_data) ==
    << <<"DistrictEncoded", district_code>>,
       <<"CropEncoded", crop_code>>,
       <<"pH Level", s.ph>>,
       <<"Year", s.previous_year>>,
       <<"Rainfall (mm)", auto_data.rainfall>>,
       <<"Temperature (C)", auto_data.temperature>>,
       <<"Fertilizer Used (kg/ha)", auto_data.fertilizer>> >>

InputData(district_code, crop_code, s, auto_data) ==
    << <<"DistrictEncoded", district_code>>,
       <<"CropEncoded", crop_code>>,
       <<"pH Level", s.ph>>,
       <<"Year", s.prediction_year>>,
       <<"Rainfall (mm)", auto_data.rainfall>>,
       <<"Temperature (C)", auto_data.temperature>>,
       <<"Fertilizer Used (kg/ha)", auto_data.fertilizer>> >>

Report(s, auto_data, label, yield, reason) ==
    [crop |-> s.crop, district |-> s.district, year |-> s.prediction_year,
     ph |-> s.ph, rainfall |-> auto_data.rainfall,
     temperature |-> auto_data.temperature, fertilizer |-> auto_data.fertilizer,
     label |-> label, yield |-> yield, reason |-> reason]

SameInputs(report, s) ==
    /\ report.district = s.district
    /\ report.crop = s.crop
    /\ report.ph = s.ph
    /\ report.year = s.prediction_year

\* get_download_link(st.session_state.report_content)
DownloadLink(sess) == IF sess.show_download THEN <<sess.report_content>> ELSE <<>>

PredictionBranch(frame, m, s, old, sess, base, nan_ok) ==
    LET auto_data == get_avg_values(frame, s.district, s.prediction_year)
        shown == [base EXCEPT !.auto = <<auto_data>>]
    IN  IF s.district \notin le_district(frame)
        THEN Raise(sess, shown, "le_district.transform", <<>>, 0, FALSE)
        ELSE IF s.crop \notin le_crop(frame)
        THEN Raise(sess, shown, "le_crop.transform", <<>>, 0, FALSE)
        ELSE
        LET input_data == InputData(transform(le_district(frame), s.district),
                                    transform(le_crop(frame), s.crop), s, auto_data)
        IN  IF ~ModelAccepts(input_data) \/ (HasNaN(input_data) /\ ~nan_ok)
            THEN Raise(sess, shown, "model.predict", Columns(input_data), 1, HasNaN(input_data))
            ELSE
            LET prediction_encoded == predict(m, frame, input_data)
                prediction_label ==
                    inverse_transform(le_yield_category(frame), prediction_encoded)
                yield == get_predicted_yield(frame, prediction_label, s.crop)
                reason == generate_reason(prediction_label, auto_data.rainfall,
                                          auto_data.temperature, s.ph)
                report == Report(s, auto_data, prediction_label, yield, reason)
                after == [sess EXCEPT !.report_content = <<report>>]
            IN  Out(after,
                    [shown EXCEPT
                        !.prediction = <<[crop |-> s.crop, label |-> prediction_label,
                                          yield |-> yield, reason |-> reason]>>,
                        !.link = DownloadLink(after)],
                    [failed |-> "none", input_columns |-> Columns(input_data),
                     predict_calls |-> 1, nan_features |-> HasNaN(input_data)],
                    IF old.report_content # <<>> /\ SameInputs(old.report_content[1], s)
                    THEN <<old.report_content[1].label>> ELSE <<>>)

\* As AnalysisMatch, without the crop (app.py's filter).
AnalysisMatchAnyCrop(r, district, year, crop) ==
    r.District = district /\ r.Year = year

AnalysisMatch(r, district, year, crop) ==
    r.District = district /\ r.Year = year /\ r.Crop = crop

\* The fields of the record the narrative prints, in its order.
Narrative(record) ==
    [year |-> record.Year, crop |-> record.Crop, district |-> record.District,
     category |-> record.Category, rainfall |-> record.Rainfall,
     temperature |-> record.Temperature, ph |-> record.pH,
     prev_yield |-> record.PrevYield, fertilizer |-> record.Fertilizer]

AnalysisBranch(frame, s, sess, base) ==
    LET data == SelectSeq(frame, LAMBDA r :
                    AnalysisMatch(r, s.district, s.previous_year, s.crop))
        specific_year_data == get_specific_year_values(frame, s.district, s.previous_year)
    IN  Out(sess,
            [base EXCEPT !.auto = <<specific_year_data>>,
                         !.nodata = (data = <<>>),
                         !.record = IF data = <<>> THEN <<>> ELSE <<Narrative(data[1])>>,
                         !.link = DownloadLink(sess)],
            BlankRun, <<>>)

\* One run of smart_crop_yield_app.py, top to bottom: f the files, frame the
\* CSV, m the classifier, s the widgets' values, sess the session state the run
\* starts with, btn the button pressed ("none" when a widget changed).
SmartScript(f, frame, m, s, sess, btn, nan_ok) ==
    LET raised == LoadRaises(f)
    IN  IF raised = "FileNotFoundError"
        THEN \* except FileNotFoundError: st.error(...); st.stop()
             Out(sess, [BlankPage EXCEPT !.error = "st.error"],
                 [BlankRun EXCEPT !.failed = "load"], <<>>)
        ELSE IF raised = "Exception"
        THEN Raise(sess, BlankPage, "load", <<>>, 0, FALSE)
        ELSE
        LET pressed == ButtonLogic(InitSession(sess), btn)
            base == [BlankPage EXCEPT !.sidebar = TRUE]
        IN  IF ~pressed.show_results THEN Out(pressed, base, BlankRun, <<>>)
            ELSE IF pressed.result_type = "prediction"
            THEN PredictionBranch(frame, m, s, sess, pressed, base, nan_ok)
            ELSE IF pressed.result_type = "analysis"
            THEN AnalysisBranch(frame, s, pressed, base)
            ELSE Out(pressed, [base EXCEPT !.link = DownloadLink(pressed)], BlankRun, <<>>)

-----------------------------------------------------------------------------
(* app.py: the script *)

\* series.unique(): the values in order of first appearance.
RECURSIVE UniqueSeq(_, _)
UniqueSeq(frame, col) ==
    IF frame = <<>> THEN <<>>
    ELSE LET rest == UniqueSeq(SubSeq(frame, 1, Len(frame) - 1), col)
             last == frame[Len(frame)][col]
         IN  IF \E i \in 1..Len(rest) : rest[i] = last THEN rest
             ELSE Append(rest, last)

AppInputData(district_code, s, auto_data) ==
    << <<"DistrictEncoded", district_code>>,
       <<"Year", s.prediction_year>>,
       <<"Rainfall (mm)", auto_data.rainfall>>,
       <<"Temperature (C)", auto_data.temperature>>,
       <<"Fertilizer Used (kg/ha)", auto_data.fertilizer>>,
       <<"pH Level", s.ph>> >>

\* for crop in df["Crop"].unique(): ... results.append((crop, prediction_label))
\* An exception in one iteration leaves the loop and the script.
RECURSIVE AppPredictLoop(_, _, _, _, _, _, _, _)
AppPredictLoop(crops, results, frame, m, s, auto_data, base, nan_ok) ==
    IF crops = <<>>
    THEN Out(EmptySession, [base EXCEPT !.prediction = results],
             [failed |-> "none",
              input_columns |-> IF results = <<>> THEN <<>>
                                ELSE Columns(AppInputData(0, s, auto_data)),
              predict_calls |-> Len(results),
              nan_features |-> results # <<>> /\ HasNaN(AppInputData(0, s, auto_data))],
             <<>>)
    ELSE IF s.district \notin le_district(frame)
    THEN Raise(EmptySession, base, "le_district.transform", <<>>, Len(results), FALSE)
    ELSE
    LET input_data == AppInputData(transform(le_district(frame), s.district), s, auto_data)
    IN  IF ~ModelAccepts(input_data) \/ (HasNaN(input_data) /\ ~nan_ok)
        THEN Raise(EmptySession, base, "model.predict", Columns(input_data),
                   Len(results) + 1, HasNaN(input_data))
        ELSE
        LET prediction_label ==
                inverse_transform(le_yield_category(frame), predict(m, frame, input_data))
        IN  AppPredictLoop(Tail(crops),
                           Append(results, [crop |-> Head(crops), label |-> prediction_label]),
                           frame, m, s, auto_data, base, nan_ok)

\* data[["Crop", "Yield Category", "Rainfall (mm)", "Temperature", "Fertilizer"]]
AppTable(data) ==
    [i \in 1..Len(data) |->
        [crop |-> data[i].Crop, category |-> data[i].Category,
         rainfall |-> data[i].Rainfall, temperature |-> data[i].Temperature,
         fertilizer |-> data[i].Fertilizer]]

\* One run of app.py, top to bottom. The script keeps no session state.
AppScript(f, frame, m, s, btn, nan_ok) ==
    IF LoadRaises(f) # "none"
    THEN \* no handler: every exception of the loads leaves the script
         Raise(EmptySession, BlankPage, "load", <<>>, 0, FALSE)
    ELSE
    LET base == [BlankPage EXCEPT !.sidebar = TRUE]
        auto_data == app_get_avg_values(frame, s.district, s.prediction_year)
    IN  IF btn = "predict"
        THEN AppPredictLoop(UniqueSeq(frame, "Crop"), <<>>, frame, m, s, auto_data,
                            base, nan_ok)
        ELSE IF btn = "analyze"
        THEN LET data == SelectSeq(frame, LAMBDA r :
                             r.District = s.district /\ r.Year = s.previous_year)
             IN  Out(EmptySession,
                     [base EXCEPT !.nodata = (data = <<>>), !.table = AppTable(data)],
                     BlankRun, <<>>)
        ELSE Out(EmptySession, base, BlankRun, <<>>)

-----------------------------------------------------------------------------
(* The datasets and the widgets *)

\* The rows the datasets of Spec are made of. The two rows of Ariyalur share
\* their (district, crop, year); the row of Coimbatore misses its previous
\* year's yield.
MainPool ==
    { Row("Ariyalur", "Rice", 2023, 90000, 3600, 10000, 650, 300, "Good"),
      Row("Ariyalur", "Rice", 2023, 98000, 3400, 10500, 620, 310, "Average"),
      Row("Erode", "Wheat", 2024, 120000, 3000, 12000, 700, 200, "Bad"),
      Row("Coimbatore", "Wheat", 2023, 95000, 3300, 9000, 680, NaN, "Good") }

\* st.sidebar.slider("Enter Soil pH Level", 3.5, 9.0, 6.5): the default and
\* the upper end.
PhDefault == 650
PhValues == {PhDefault, 900}

First(names) == CHOOSE n \in names : \A o \in names : Rank(n) <= Rank(o)
Largest(numbers) == CHOOSE n \in numbers : \A o \in numbers : n >= o

\* The widgets' values when the page is first opened: each selectbox shows
\* its first option (None when it has none), the slider its default.
Defaults(frame) ==
    [district        |-> IF frame = <<>> THEN "None" ELSE First(Unique(frame, "District")),
     crop            |-> IF frame = <<>> THEN "None" ELSE First(Unique(frame, "Crop")),
     ph              |-> PhDefault,
     prediction_year |-> Largest({-y : y \in PredictionYears}) * (-1),
     previous_year   |-> IF frame = <<>> THEN 0 ELSE Largest(Unique(frame, "Year"))]

NoCall == [fn |-> "none", args |-> <<>>, ret |-> <<>>]

AllOk == [n \in FileNames |-> "ok"]

\* All files in place, or one of them missing or unreadable.
FileStates ==
    {AllOk} \cup {[AllOk EXCEPT ![n] = st] : n \in FileNames, st \in {"missing", "corrupt"}}

-----------------------------------------------------------------------------
(* The state machine of a browser session *)

Init ==
    /\ entry \in {"smart_crop_yield_app", "app"}
    /\ files \in FileStates
    /\ \/ /\ files = AllOk
          /\ df \in DistinctSeqsUpTo(MainPool, MaxRows)
          \* the artifacts on disk are those the trainer wrote from this CSV
          /\ TrainerSucceeds(df)
          /\ model \in Forests
       \/ \* a load raises before df and model are bound
          /\ files # AllOk
          /\ df = <<>>
          /\ model = 0
    /\ sel = Defaults(df)
    /\ session = EmptySession
    /\ page = BlankPage
    /\ run = BlankRun
    /\ twin = <<>>
    /\ started = FALSE
    /\ last_button = "none"
    /\ call = NoCall

Script(s, btn, nan_ok) ==
    IF entry = "smart_crop_yield_app"
    THEN SmartScript(files, df, model, s, session, btn, nan_ok)
    ELSE AppScript(files, df, model, s, btn, nan_ok)

\* streamlit runs the script once, top to bottom, with the widgets at s.
\* Whether model.predict takes a frame that holds a NaN depends on the
\* installed scikit-learn: either outcome may be the run's.
RunScript(s, btn) ==
    LET lenient == Script(s, btn, TRUE)
    IN  \E out \in {lenient} \cup
                    (IF lenient.run.nan_features THEN {Script(s, btn, FALSE)} ELSE {}) :
            /\ sel' = s
            /\ session' = out.session
            /\ page' = out.page
            /\ run' = out.run
            /\ twin' = out.twin
            /\ started' = TRUE
            /\ last_button' = (IF btn = "none" THEN last_button ELSE btn)
            /\ UNCHANGED <<df, entry, files, model, call>>

Open == ~started /\ RunScript(sel, "none")

Interactive == started /\ page.sidebar

SelectDistrict ==
    /\ Interactive
    /\ \E d \in Unique(df, "District") \ {sel.district} :
           RunScript([sel EXCEPT !.district = d], "none")

SelectCrop ==
    /\ Interactive
    /\ entry = "smart_crop_yield_app"
    /\ \E c \in Unique(df, "Crop") \ {sel.crop} :
           RunScript([sel EXCEPT !.crop = c], "none")

SlidePh ==
    /\ Interactive
    /\ \E p \in PhValues \ {sel.ph} : RunScript([sel EXCEPT !.ph = p], "none")

SelectPredictionYear ==
    /\ Interactive
    /\ \E y \in PredictionYears \ {sel.prediction_year} :
           RunScript([sel EXCEPT !.prediction_year = y], "none")

SelectPreviousYear ==
    /\ Interactive
    /\ \E y \in Unique(df, "Year") \ {sel.previous_year} :
           RunScript([sel EXCEPT !.previous_year = y], "none")

PressPredict == Interactive /\ RunScript(sel, "predict")

PressAnalyze == Interactive /\ RunScript(sel, "analyze")

Next ==
    \/ Open
    \/ SelectDistrict
    \/ SelectCrop
    \/ SlidePh
    \/ SelectPredictionYear
    \/ SelectPreviousYear
    \/ PressPredict
    \/ PressAnalyze

Spec == Init /\ [][Next]_vars

-----------------------------------------------------------------------------
(* The helper functions called directly, on datasets drawn from the columns *)
(* they read                                                                 *)

\* Nothing of the browser session moves while a helper is called.
NoSession ==
    /\ entry = "none"
    /\ files = AllOk
    /\ model = 0
    /\ sel = Defaults(<<>>)
    /\ session = EmptySession
    /\ page = BlankPage
    /\ run = BlankRun
    /\ twin = <<>>
    /\ started = FALSE
    /\ last_button = "none"
    /\ call = NoCall

Returns(fn, args, ret) ==
    /\ call' = [fn |-> fn, args |-> args, ret |-> <<ret>>]
    /\ UNCHANGED <<df, entry, files, model, sel, session, page, run, twin, started, last_button>>

\* Rows of two districts, in and around the windows of 2025 and 2026, with
\* rainfall and temperature present or missing.
AvgPool ==
    { Row(d, "Rice", y, rain, temp, 12000, 650, 300, "Good") :
        d \in Districts, y \in {2015, 2024, 2025},
        rain \in {NaN, 90000, 100051}, temp \in {NaN, 3601} }

AvgInit == NoSession /\ df \in SeqsUpTo(AvgPool, MaxAvgRows)

CallGetAvgValues ==
    \E d \in Districts, y \in PredictionYears :
        Returns("get_avg_values", <<d, y>>, get_avg_values(df, d, y))

CallAppGetAvgValues ==
    \E d \in Districts, y \in PredictionYears :
        Returns("app.get_avg_values", <<d, y>>, app_get_avg_values(df, d, y))

AvgNext == CallGetAvgValues \/ CallAppGetAvgValues

SpecAvg == AvgInit /\ [][AvgNext]_vars

\* Rows of two crops in every yield category, the previous year's yield
\* present or missing.
YieldPool ==
    { Row("Ariyalur", c, 2023, 100000, 3000, 10000, 650, prev, cat) :
        c \in Crops, cat \in YieldCategories, prev \in {NaN, 200, 305} }

YieldInit == NoSession /\ df \in SeqsUpTo(YieldPool, MaxYieldRows)

CallGetPredictedYield ==
    \E label \in YieldCategories, crop \in Crops :
        Returns("get_predicted_yield", <<label, crop>>,
                get_predicted_yield(df, label, crop))

YieldNext == CallGetPredictedYield

SpecYield == YieldInit /\ [][YieldNext]_vars

ReasonPredictions == YieldCategories \cup {"Poor"}
ReasonRainfalls == {NaN, 0, 99999, 100000}
ReasonTemperatures == {NaN, 3500, 3501}
ReasonPhs == {350, 599, 600, 750, 751, 900}

ReasonInit == NoSession /\ df = <<>>

CallGenerateReason ==
    \E p \in ReasonPredictions, rain \in ReasonRainfalls,
       temp \in ReasonTemperatures, ph \in ReasonPhs :
        Returns("generate_reason", <<p, rain, temp, ph>>,
                generate_reason(p, rain, temp, ph))

ReasonNext == CallGenerateReason

SpecReason == ReasonInit /\ [][ReasonNext]_vars

-----------------------------------------------------------------------------
(* Means over sets of rows, for the statements below *)

Abs(x) == IF x < 0 THEN -x ELSE x

\* The rows of I that hold a value in the column.
Present(I, col) == {i \in I : df[i][col] # NaN}

RECURSIVE SetSum(_, _)
SetSum(I, col) ==
    IF I = {} THEN 0
    ELSE LET i == CHOOSE j \in I : TRUE
         IN  df[i][col] + SetSum(I \ {i}, col)

\* v is the mean of the column over the rows I, to 2 decimals: the hundredth
\* nearest to sum / count (the even one of two equally near), the mean being
\* taken over the rows that hold a value, and NaN when none does.
IsMeanOf(v, I, col) ==
    LET n == Cardinality(Present(I, col))
        total == SetSum(Present(I, col), col)
    IN  IF n = 0 THEN v = NaN
        ELSE /\ v # NaN
             /\ 2 * Abs(v * n - total) <= n
             /\ 2 * Abs(v * n - total) = n => v % 2 = 0

AvgColumns ==
    [rainfall |-> "Rainfall", temperature |-> "Temperature", fertilizer |-> "Fertilizer"]

AvgCalled == call.fn \in {"get_avg_values", "app.get_avg_values"}

\* The rows of the district in [year - 10, year - 1].
PrimaryWindow(district, year) ==
    {i \in 1..Len(df) :
        df[i].District = district /\ df[i].Year \in (year - 10)..(year - 1)}

\* C1: when the district has a row in [year - 10, year - 1], get_avg_values (of
\* either script) returns, for rainfall, temperature and fertilizer, the mean to
\* 2 decimals of the column over exactly the rows of that district and window.
C1_WindowMeans ==
    AvgCalled =>
        LET W == PrimaryWindow(call.args[1], call.args[2])
        IN  W # {} =>
                \A k \in DOMAIN AvgColumns : IsMeanOf(call.ret[1][k], W, AvgColumns[k])

\* A call whose window holds a row with rainfall, beside a row with another
\* rainfall that is outside the window or of the other district.
C1_Witness ==
    /\ call.fn = "get_avg_values"
    /\ LET W == PrimaryWindow(call.args[1], call.args[2])
       IN  /\ Present(W, "Rainfall") # {}
           /\ call.ret[1].rainfall > 0
           /\ \E i \in (1..Len(df)) \ W :
                  df[i].Rainfall \notin {NaN, call.ret[1].rainfall}

\* The rows of the documented fallback window, 2014-2024, of any district.
DocumentedFallback == {i \in 1..Len(df) : df[i].Year \in 2014..2024}

\* C2: when the district has no row in the primary window, get_avg_values (of
\* either script) returns the column means over the rows of 2014-2024, and
\* neither 0 nor NaN for a column of which a row of 2014-2024 holds a value.
C2_DocumentedFallback ==
    (/\ AvgCalled
     /\ PrimaryWindow(call.args[1], call.args[2]) = {}
     /\ DocumentedFallback # {})
    => \A k \in DOMAIN AvgColumns :
           Present(DocumentedFallback, AvgColumns[k]) # {} =>
               /\ IsMeanOf(call.ret[1][k], DocumentedFallback, AvgColumns[k])
               /\ call.ret[1][k] \notin {0, NaN}

\* The rows of the crop in the category, and the rows of the category.
CropRows(label, crop) ==
    {i \in 1..Len(df) : df[i].Crop = crop /\ df[i].Category = label}
LabelRows(label) == {i \in 1..Len(df) : df[i].Category = label}

\* v is the mean of the previous year's yield over the rows I (those that hold
\* one), times 1000 / 2.47105, to 2 decimals: with x the exact product,
\* |v - x| <= 1/2 hundredth. Nothing is said when no row of I holds a yield.
IsYieldOf(v, I) ==
    LET n == Cardinality(Present(I, "PrevYield"))
        total == SetSum(Present(I, "PrevYield"), "PrevYield")
        q == 100000000 \div AcresPerHectareE5
        r == 100000000 % AcresPerHectareE5
    IN  n > 0 =>
            /\ v # NaN
            /\ 2 * Abs(AcresPerHectareE5 * (v * n - q * total) - r * total)
                   <= n * AcresPerHectareE5

\* The three cases of C3, without the claim that the result is never NaN.
YieldCases ==
    call.fn = "get_predicted_yield" =>
        LET label == call.args[1]
            crop == call.args[2]
            v == call.ret[1]
        IN  /\ CropRows(label, crop) # {} => IsYieldOf(v, CropRows(label, crop))
            /\ (CropRows(label, crop) = {} /\ LabelRows(label) # {})
                    => IsYieldOf(v, LabelRows(label))
            /\ LabelRows(label) = {} => v = 0

\* C3: get_predicted_yield returns the converted mean over the rows of the crop
\* in the category when there are such rows, else over the rows of the
\* category, else 0; and the result is never NaN.
C3_YieldNeverNaN ==
    /\ YieldCases
    /\ call.fn = "get_predicted_yield" => call.ret[1] # NaN

\* C10: generate_reason is a fixed rule table: one fixed sentence for Good, one
\* for Average; for any other prediction the triggered conditions among low
\* rainfall (< 1000), high temperature (> 35) and unbalanced pH (< 6.0 or
\* > 7.5), in that order, joined by " and ", and the "not ideal" sentence
\* exactly when none is triggered. The result is never empty.
C10_RuleTable ==
    call.fn = "generate_reason" =>
        LET p == call.args[1]
            low == call.args[2] # NaN /\ call.args[2] < 100000
            hot == call.args[3] # NaN /\ call.args[3] > 3500
            unbalanced == call.args[4] < 600 \/ call.args[4] > 750
            text == call.ret[1]
        IN  /\ text # ""
            /\ p = "Good" => text = GoodReason
            /\ p = "Average" => text = AverageReason
            /\ p \notin {"Good", "Average"} =>
                /\ (low /\ hot /\ unbalanced) => text =
                     "The yield is low due to low rainfall and high temperature and unbalanced pH level."
                /\ (low /\ hot /\ ~unbalanced) => text =
                     "The yield is low due to low rainfall and high temperature."
                /\ (low /\ ~hot /\ unbalanced) => text =
                     "The yield is low due to low rainfall and unbalanced pH level."
                /\ (low /\ ~hot /\ ~unbalanced) => text =
                     "The yield is low due to low rainfall."
                /\ (~low /\ hot /\ unbalanced) => text =
                     "The yield is low due to high temperature and unbalanced pH level."
                /\ (~low /\ hot /\ ~unbalanced) => text =
                     "The yield is low due to high temperature."
                /\ (~low /\ ~hot /\ unbalanced) => text =
                     "The yield is low due to unbalanced pH level."
                /\ (~low /\ ~hot /\ ~unbalanced) => text = NotIdealReason
                /\ (text = NotIdealReason) <=> (~low /\ ~hot /\ ~unbalanced)

\* A prediction other than Good and Average on which all three conditions are
\* triggered, at the upper end of the pH range.
C10_Witness ==
    /\ call.fn = "generate_reason"
    /\ call.args = <<"Bad", 99999, 3501, 751>>
    /\ call.ret[1] =
         "The yield is low due to low rainfall and high temperature and unbalanced pH level."

-----------------------------------------------------------------------------
(* The browser session *)

Smart == entry = "smart_crop_yield_app"

\* The rows of the selected (district, crop, year of analysis).
SelectedRows ==
    {i \in 1..Len(df) :
        /\ df[i].District = sel.district
        /\ df[i].Crop = sel.crop
        /\ df[i].Year = sel.previous_year}

AnalysisShown == Smart /\ started /\ session.result_type = "analysis"

MissingFile == \E n \in FileNames : files[n] = "missing"

\* C5: with a file missing, a run of either script shows an error and stops
\* there: no sidebar, no auto-filled data, no prediction, no analysis, no
\* download link, no call of the model, and the session state stays unset.
C5_MissingFileHalts ==
    (started /\ MissingFile) =>
        /\ page.error # "none"
        /\ run.failed = "load"
        /\ ~page.sidebar
        /\ page.auto = <<>>
        /\ page.prediction = <<>>
        /\ ~page.nodata
        /\ page.record = <<>>
        /\ page.table = <<>>
        /\ page.link = <<>>
        /\ run.predict_calls = 0
        /\ session = EmptySession

\* The CSV is missing and the script has shown its own error message.
C5_Witness ==
    /\ started
    /\ Smart
    /\ files["historical_crop_yield_dataset.csv"] = "missing"
    /\ page.error = "st.error"

\* An error of a run other than a missing file at load time.
UnexpectedError == started /\ run.failed # "none" /\ ~MissingFile

\* C6 as claimed: every such error is caught by the script and shown as its
\* own message.
C6_CaughtAtTopLevel == UnexpectedError => page.error = "st.error"

\* C6 as amended: no such error is caught by the script: the exception leaves
\* it (streamlit displays it), nothing that follows the failing statement is
\* rendered or stored, and the failing call is not made again in the run.
C6_Uncaught ==
    UnexpectedError =>
        /\ page.error = "uncaught"
        /\ page.prediction = <<>>
        /\ page.link = <<>>
        /\ run.predict_calls <= 1
        /\ run.failed = "load" => (~page.sidebar /\ session = EmptySession)

\* An unreadable pickle has ended a run of smart_crop_yield_app.py.
C6_Witness ==
    /\ UnexpectedError
    /\ Smart
    /\ run.failed = "load"
    /\ files["le_crop.pkl"] = "corrupt"

\* C7: every district and crop the predictor offers is a class of the encoder
\* the trainer fitted from the same CSV, so that neither transform fails.
C7_TransformNeverFails ==
    (started /\ files = AllOk) =>
        run.failed \notin {"le_district.transform", "le_crop.transform"}

\* C8: the frame every script gives to model.predict has the trainer's columns,
\* in the trainer's order.
C8_TrainerColumns == run.input_columns # <<>> => run.input_columns = TrainerColumns

\* C9: the label of a prediction is Good, Average or Bad, and a run with the
\* district, crop, pH and prediction year of the previous prediction shows the
\* label that one showed.
C9_SameLabel ==
    /\ (Smart /\ page.prediction # <<>>) =>
            page.prediction[1].label \in {"Good", "Average", "Bad"}
    /\ twin # <<>> => (page.prediction # <<>> /\ twin[1] = page.prediction[1].label)

\* A prediction repeated with the same inputs after the year of analysis was
\* changed, on a classifier with more than one class.
C9_Witness ==
    /\ twin # <<>>
    /\ sel.previous_year # Defaults(df).previous_year
    /\ Cardinality(le_yield_category(df)) > 1

\* The result_type the button logic gives the last pressed button.
ResultTypeOf(btn) ==
    IF btn = "predict" THEN "prediction"
    ELSE IF btn = "analyze" THEN "analysis"
    ELSE "None"

LinkRendered == page.link # <<>>

\* The rendered link holds the report of this run: the one the run stored,
\* with the selected district, crop, pH and prediction year, the averages of
\* that district and year, and the label, yield and reason the run shows.
LinkOfThisRun ==
    LET report == page.link[1][1]
        auto_data == get_avg_values(df, sel.district, sel.prediction_year)
    IN  /\ page.link[1] # <<>>
        /\ session.report_content = page.link[1]
        /\ SameInputs(report, sel)
        /\ report.rainfall = auto_data.rainfall
        /\ report.temperature = auto_data.temperature
        /\ report.fertilizer = auto_data.fertilizer
        /\ Len(page.prediction) = 1
        /\ report.label = page.prediction[1].label
        /\ report.yield = page.prediction[1].yield
        /\ report.reason = page.prediction[1].reason

\* What the session state keeps over the reruns: show_results is set iff a
\* button was ever pressed, result_type is that of the last pressed button,
\* show_download is set iff result_type is 'prediction', and a rendered link
\* is that of a prediction run and holds the report of this run.
SessionFlags ==
    /\ session.show_results <=> last_button # "none"
    /\ session.result_type = ResultTypeOf(last_button)
    /\ session.show_download <=> session.result_type = "prediction"
    /\ LinkRendered => (session.result_type = "prediction" /\ LinkOfThisRun)

\* C11: over any sequence of reruns of smart_crop_yield_app.py (Predict,
\* Analyze, or a widget changed), results are shown iff a button was ever
\* pressed, result_type is the last pressed button, the download link is
\* rendered iff result_type is 'prediction', and a rendered link holds the
\* report computed in the same rerun from the selected district, crop, pH
\* and prediction year.
C11_LinkIffPrediction ==
    Smart =>
        /\ SessionFlags
        /\ LinkRendered <=> session.result_type = "prediction"

====
